---- MODULE Spec2Model ----
(***************************************************************************)
(* The three entry points of the repository as one state machine:          *)
(*   csvupload.py        (entry = "csv")     the CSV Pusher                *)
(*   python.oaa.py       (entry = "builder") the Model Builder             *)
(*   seed.python.oaa.py  (entry = "seed")    the Seed variant              *)
(* A run is one process: pc is the statement about to execute, exited and  *)
(* exitCode the process's termination, out / err its two output streams.   *)
(* The source API (PagerDuty) and the sink platform (Veza, through the     *)
(* oaaclient library) are the environment: what they return is drawn from  *)
(* small sets at the call that receives it.                                *)
(***************************************************************************)
EXTENDS Integers, Sequences, FiniteSets, TLC

VARIABLES
    entry,        \* which script runs
    pc,           \* statement about to execute
    exited,       \* the process has terminated
    exitCode,     \* its exit status (meaningful once exited)
    out,          \* lines printed to stdout
    err,          \* lines printed to stderr
    steps,        \* history: the kind of every step executed, in order
    propDefs,     \* app.property_definitions: declared <<entity, name>>
    propSets,     \* history: every set_property call made, as <<entity, name>>
    permissions,  \* app.custom_permissions: name -> set of rights
    local_roles,  \* app.local_roles: unique id -> permission names
    local_users,  \* app.local_users: unique id -> user record
    local_groups, \* app.local_groups: set of unique ids
    resources,    \* app.resources: name -> resource record
    usersTodo,    \* rest of response['users'] still to iterate
    teams,        \* the teams list returned by the teams fetch
    teamsFetched, \* the teams fetch has returned
    groupsTodo,   \* rest of teams for the group loop
    resTodo,      \* rest of teams for the resource loop
    memTodo,      \* keys of app.resources in insertion order, still to iterate
    membersTodo,  \* rest of response['members'] for the current resource
    getCalls,     \* number of requests.get calls made
    nMembers,     \* number of member records returned so far
    connected,    \* veza_con exists
    provider,     \* the local variable provider: "unset", "none", "found", "created"
    lookupResult, \* history: what get_provider returned: "unset", "none", "found"
    lookupCalls,  \* number of get_provider calls
    createCalls,  \* number of create_provider calls
    pushCalls,    \* number of push_application / api_post calls
    fileReads,    \* number of times sample.csv was read
    response      \* what the push returned or raised

ctl   == <<entry, pc, exited, exitCode>>
io    == <<out, err>>
graph == <<propDefs, propSets, permissions, local_roles, local_users,
           local_groups, resources>>
loops == <<usersTodo, teams, teamsFetched, groupsTodo, resTodo, memTodo,
           membersTodo>>
srcio == <<getCalls, nMembers>>
sink  == <<connected, provider, lookupResult, lookupCalls, createCalls, pushCalls,
           fileReads, response>>
vars  == <<ctl, io, steps, graph, loops, srcio, sink>>

----------------------------------------------------------------------------
(* Bounds of the model and constants of the program *)

\* most users the users fetch returns
MaxUsers == 2

\* most teams the teams fetch returns
MaxTeams == 3

\* most member records the member fetches of one run return in total
MaxMembers == 2

\* longest team description drawn in SpecDesc
MaxDescLen == 1030

\* python.oaa.py:73  team.get('description')[:255]
DescLimit == 255

\* python.oaa.py:72  "Populate built-in property description (max 1,024 char)"
PlatformMaxDescription == 1024

----------------------------------------------------------------------------
(* Small helpers *)

Range(s) == {s[i] : i \in 1..Len(s)}

Line(tag, text) == [tag |-> tag, text |-> text]

\* a string of n characters; the character at position i is i
Text(n) == [i \in 1..n |-> i]

\* Python's optional string: None, or a string
None == [present |-> FALSE, text |-> <<>>]
Str(s) == [present |-> TRUE, text |-> s]

\* Python truthiness of an optional string: None and "" are falsy
Truthy(d) == d.present /\ Len(d.text) > 0

\* Python slice s[:n]
Slice(s, n) == SubSeq(s, 1, IF Len(s) < n THEN Len(s) ELSE n)

Min(S) == CHOOSE x \in S : \A y \in S : x <= y

\* all sequences over S of length at most k
SeqsUpTo(S, k) == UNION {[1..n -> S] : n \in 0..k}

----------------------------------------------------------------------------
(* The static schema of python.oaa.py *)

\* lines 19-23
PropertySchema ==
    { <<"local_user", "email">>, <<"local_user", "is_billed">>,
      <<"team", "pagerduty_id">>, <<"team", "summary">>,
      <<"team", "default_role">> }

\* lines 26-35: the ten custom permissions
PermissionCatalog ==
    [ admin |-> {"DataWrite", "DataRead", "DataDelete", "MetadataRead", "MetadataWrite"},
      limited_user |-> {"DataRead", "MetadataRead"},
      manager |-> {"DataWrite", "DataRead", "MetadataWrite", "MetadataRead"},
      observer |-> {"DataRead", "MetadataRead"},
      owner |-> {"DataWrite", "DataRead", "DataDelete", "MetadataRead", "MetadataWrite"},
      read_only_limited_user |-> {"MetadataRead"},
      read_only_user |-> {"DataRead", "MetadataRead"},
      responder |-> {"DataWrite", "DataRead"},
      restricted_access |-> {"MetadataRead", "MetadataWrite"},
      user |-> {"DataRead", "MetadataRead"} ]

PermissionNames == DOMAIN PermissionCatalog

\* lines 38-46: the nine local roles, unique id -> permissions
RoleCatalog ==
    [ admin |-> {"admin"},
      limited_user |-> {"limited_user"},
      observer |-> {"observer"},
      owner |-> {"owner"},
      read_only_limited_user |-> {"read_only_limited_user"},
      read_only_user |-> {"read_only_user"},
      restricted_access |-> {"restricted_access"},
      user |-> {"user"},
      manager |-> {"manager"} ]

----------------------------------------------------------------------------
(* What the source API may return *)

UserIds == {"U1", "U2"}

\* role names the source sends in Spec: two declared roles and "responder"
SomeRoles == {"admin", "manager", "responder"}

SourceUsers(roles) ==
    { [id |-> i, name |-> i, email |-> i, role |-> r, billed |-> (i = "U1")] :
        i \in UserIds, r \in roles }

SourceMembers(roles) == [user : UserIds, role : roles]

Team(i, n, d) ==
    [id |-> i, name |-> n, description |-> d, summary |-> n, default_role |-> "manager"]

\* T1 and T3 share a name; descriptions: missing, short, empty
SourceTeams ==
    { Team("T1", "Ops", None), Team("T2", "Dev", Str(Text(3))),
      Team("T3", "Ops", Str(Text(0))) }

\* one team whose description ranges over every length up to MaxDescLen
DescTeams == {Team("T1", "Ops", None)} \cup
             {Team("T1", "Ops", Str(Text(n))) : n \in 0..MaxDescLen}

\* warnings of a successful push, details of a failed one
ItemLists == {<<>>, <<"i1">>, <<"i1", "i2">>}

----------------------------------------------------------------------------
(* Process termination *)

Step(kind) == steps' = Append(steps, kind)

\* the process ends with the given status
Exit(code) ==
    /\ pc' = "done"
    /\ exited' = TRUE
    /\ exitCode' = code
    /\ UNCHANGED entry

\* an exception nothing catches: Python prints the traceback to stderr and
\* exits with status 1
Crash(exc) ==
    /\ err' = Append(err, Line("traceback", exc))
    /\ out' = out
    /\ Exit(1)

Goto(label) ==
    /\ pc' = label
    /\ UNCHANGED <<entry, exited, exitCode>>

Init ==
    /\ entry \in {"csv", "builder", "seed"}
    /\ pc = IF entry = "csv" THEN "connect" ELSE "start"
    /\ exited = FALSE
    /\ exitCode = 0
    /\ out = <<>>
    /\ err = <<>>
    /\ steps = <<>>
    /\ propDefs = {}
    /\ propSets = {}
    /\ permissions = <<>>
    /\ local_roles = <<>>
    /\ local_users = <<>>
    /\ local_groups = {}
    /\ resources = <<>>
    /\ usersTodo = <<>>
    /\ teams = <<>>
    /\ teamsFetched = FALSE
    /\ groupsTodo = <<>>
    /\ resTodo = <<>>
    /\ memTodo = <<>>
    /\ membersTodo = <<>>
    /\ getCalls = 0
    /\ nMembers = 0
    /\ connected = FALSE
    /\ provider = "unset"
    /\ lookupResult = "unset"
    /\ lookupCalls = 0
    /\ createCalls = 0
    /\ pushCalls = 0
    /\ fileReads = 0
    /\ response = [kind |-> "none", items |-> <<>>]

----------------------------------------------------------------------------
(* The oaaclient template calls the Model Builder makes *)

\* PropertyDefinitions.validate_property_name, called by set_property
Declared(entity, name) == <<entity, name>> \in propDefs

\* the set_property calls of one entity, made in order until one is rejected:
\* the names actually passed to set_property
Attempted(entity, names) ==
    LET bad == {i \in 1..Len(names) : ~Declared(entity, names[i])}
    IN  IF bad = {} THEN names ELSE SubSeq(names, 1, Min(bad))

AllDeclared(entity, names) == \A i \in 1..Len(names) : Declared(entity, names[i])

\* line 73: team.get('description')[:255] if team.get('description') else None
ResourceDescription(d) ==
    IF Truthy(d) THEN Str(Slice(d.text, DescLimit)) ELSE None

\* lines 53-57: the LocalUser add_local_user returns, after add_role
NewUser(u) ==
    [ name |-> u.name,
      identities |-> <<u.email>>,
      roles |-> {<<u.role, "application">>},
      properties |-> <<>>,
      groups |-> {} ]

\* lines 59-60: the two properties of a user record
UserProperties(u) == [email |-> u.email, is_billed |-> u.billed]

\* lines 75-77: the three properties of a team record
TeamProperties(t) ==
    [pagerduty_id |-> t.id, summary |-> t.summary, default_role |-> t.default_role]

----------------------------------------------------------------------------
(* python.oaa.py main(), lines 16-90; seed.python.oaa.py main(), line 10 *)

\* line 16 (seed: line 10): app = CustomApplication(...)
BuildApp ==
    /\ pc = "start"
    /\ Goto(IF entry = "builder" THEN "define_props" ELSE "connect")
    /\ Step("build")
    /\ UNCHANGED <<io, graph, loops, srcio, sink>>

\* DefineProperties without line 22: the team property 'summary' is not declared
DefinePropertiesPartial ==
    /\ pc = "define_props"
    /\ propDefs' = propDefs \cup (PropertySchema \ {<<"team", "summary">>})
    /\ Goto("permissions")
    /\ Step("build")
    /\ UNCHANGED <<io, propSets, permissions, local_roles, local_users,
                   local_groups, resources, loops, srcio, sink>>

\* lines 19-23
DefineProperties ==
    /\ pc = "define_props"
    /\ propDefs' = propDefs \cup PropertySchema
    /\ Goto("permissions")
    /\ Step("build")
    /\ UNCHANGED <<io, propSets, permissions, local_roles, local_users,
                   local_groups, resources, loops, srcio, sink>>

\* lines 26-35
AddPermissions ==
    /\ pc = "permissions"
    /\ permissions' = PermissionCatalog
    /\ Goto("roles")
    /\ Step("build")
    /\ UNCHANGED <<io, propDefs, propSets, local_roles, local_users,
                   local_groups, resources, loops, srcio, sink>>

\* lines 38-46
AddRoles ==
    /\ pc = "roles"
    /\ local_roles' = RoleCatalog
    /\ Goto("fetch_users")
    /\ Step("build")
    /\ UNCHANGED <<io, propDefs, propSets, permissions, local_users,
                   local_groups, resources, loops, srcio, sink>>

\* lines 49-50: one GET; the response carries one of the given lists of users
FetchUsers(lists) ==
    /\ pc = "fetch_users"
    /\ \E us \in lists : usersTodo' = us
    /\ getCalls' = getCalls + 1
    /\ Goto("users")
    /\ Step("fetch")
    /\ UNCHANGED <<io, graph, teams, teamsFetched, groupsTodo, resTodo, memTodo,
                   membersTodo, nMembers, sink>>

\* lines 49-51: the GET fails or its body has no 'users' key; nothing catches it
FetchUsersFault ==
    /\ pc = "fetch_users"
    /\ getCalls' = getCalls + 1
    /\ Crash("KeyError")
    /\ Step("fetch")
    /\ UNCHANGED <<graph, loops, nMembers, sink>>

\* lines 51-60: one iteration of the user loop
AddUser ==
    /\ pc = "users"
    /\ usersTodo # <<>>
    /\ LET u == Head(usersTodo)
           names == <<"email", "is_billed">>
           done == Attempted("local_user", names)
       IN  IF u.id \in DOMAIN local_users
           THEN \* add_local_user rejects a duplicate unique id
                /\ Crash("OAATemplateException")
                /\ UNCHANGED <<graph, usersTodo>>
           ELSE /\ propSets' = propSets \cup {<<"local_user", n>> : n \in Range(done)}
                /\ IF AllDeclared("local_user", names)
                   THEN /\ local_users' = local_users @@
                              (u.id :> [NewUser(u) EXCEPT !.properties = UserProperties(u)])
                        /\ usersTodo' = Tail(usersTodo)
                        /\ Goto("users")
                        /\ UNCHANGED io
                   ELSE \* set_property rejects an undeclared property
                        /\ local_users' = local_users @@ (u.id :> NewUser(u))
                        /\ usersTodo' = usersTodo
                        /\ Crash("OAATemplateException")
                /\ UNCHANGED <<propDefs, permissions, local_roles, local_groups, resources>>
    /\ Step("build")
    /\ UNCHANGED <<teams, teamsFetched, groupsTodo, resTodo, memTodo, membersTodo,
                   srcio, sink>>

\* lines 63-64: one GET; teams = response.json()['teams']
FetchTeams(lists) ==
    /\ pc = "users"
    /\ usersTodo = <<>>
    /\ \E ts \in lists :
          /\ teams' = ts
          /\ groupsTodo' = ts
          /\ resTodo' = ts
    /\ teamsFetched' = TRUE
    /\ getCalls' = getCalls + 1
    /\ Goto("teams")
    /\ Step("fetch")
    /\ UNCHANGED <<io, graph, usersTodo, memTodo, membersTodo, nMembers, sink>>

\* lines 63-64: the GET fails or its body has no 'teams' key
FetchTeamsFault ==
    /\ pc = "users"
    /\ usersTodo = <<>>
    /\ getCalls' = getCalls + 1
    /\ Crash("KeyError")
    /\ Step("fetch")
    /\ UNCHANGED <<graph, loops, nMembers, sink>>

\* lines 65-66: one iteration of the group loop
AddGroup ==
    /\ pc = "teams"
    /\ groupsTodo # <<>>
    /\ LET t == Head(groupsTodo)
       IN  IF t.id \in local_groups
           THEN \* add_local_group rejects a duplicate unique id
                /\ Crash("OAATemplateException")
                /\ UNCHANGED <<local_groups, groupsTodo>>
           ELSE /\ local_groups' = local_groups \cup {t.id}
                /\ groupsTodo' = Tail(groupsTodo)
                /\ Goto("teams")
                /\ UNCHANGED io
    /\ Step("build")
    /\ UNCHANGED <<propDefs, propSets, permissions, local_roles, local_users,
                   resources, usersTodo, teams, teamsFetched, resTodo, memTodo,
                   membersTodo, srcio, sink>>

\* AddResource with a duplicate name replacing the resource of that name
\* instead of being rejected
AddResourceOverwrite ==
    /\ pc = "teams"
    /\ groupsTodo = <<>>
    /\ resTodo # <<>>
    /\ LET t == Head(resTodo)
           made == [ resource_type |-> "team",
                     description |-> ResourceDescription(t.description),
                     properties |-> TeamProperties(t) ]
       IN  /\ propSets' = propSets \cup {<<"team", n>> : n \in DOMAIN TeamProperties(t)}
           /\ resources' = [n \in DOMAIN resources \cup {t.name} |->
                                IF n = t.name THEN made ELSE resources[n]]
           /\ memTodo' = IF t.name \in DOMAIN resources
                          THEN memTodo ELSE Append(memTodo, t.name)
    /\ resTodo' = Tail(resTodo)
    /\ Goto("teams")
    /\ Step("build")
    /\ UNCHANGED <<io, propDefs, permissions, local_roles, local_users, local_groups,
                   usersTodo, teams, teamsFetched, groupsTodo, membersTodo,
                   srcio, sink>>

\* lines 69-77: one iteration of the resource loop
AddResource ==
    /\ pc = "teams"
    /\ groupsTodo = <<>>
    /\ resTodo # <<>>
    /\ LET t == Head(resTodo)
           names == <<"pagerduty_id", "summary", "default_role">>
           done == Attempted("team", names)
           made == [ resource_type |-> "team",
                     description |-> ResourceDescription(t.description),
                     properties |-> <<>> ]
       IN  IF t.name \in DOMAIN resources
           THEN \* add_resource rejects a duplicate identifier (the name)
                /\ Crash("OAATemplateException")
                /\ UNCHANGED <<propSets, resources, resTodo, memTodo>>
           ELSE /\ propSets' = propSets \cup {<<"team", n>> : n \in Range(done)}
                /\ IF AllDeclared("team", names)
                   THEN /\ resources' = resources @@
                              (t.name :> [made EXCEPT !.properties = TeamProperties(t)])
                        /\ resTodo' = Tail(resTodo)
                        /\ memTodo' = Append(memTodo, t.name)
                        /\ Goto("teams")
                        /\ UNCHANGED io
                   ELSE \* set_property rejects an undeclared property
                        /\ resources' = resources @@ (t.name :> made)
                        /\ UNCHANGED <<resTodo, memTodo>>
                        /\ Crash("OAATemplateException")
    /\ Step("build")
    /\ UNCHANGED <<propDefs, permissions, local_roles, local_users, local_groups,
                   usersTodo, teams, teamsFetched, groupsTodo, membersTodo,
                   srcio, sink>>

\* the loops over teams are finished and the member loop is between resources
BetweenResources ==
    /\ pc = "teams"
    /\ groupsTodo = <<>>
    /\ resTodo = <<>>
    /\ membersTodo = <<>>

\* lines 80-85: the member loop reaches the next resource: one GET
FetchMembers(lists) ==
    /\ BetweenResources
    /\ memTodo # <<>>
    /\ \E ms \in lists :
          /\ Len(ms) <= MaxMembers - nMembers
          /\ membersTodo' = ms
          /\ nMembers' = nMembers + Len(ms)
          /\ memTodo' = IF ms = <<>> THEN Tail(memTodo) ELSE memTodo
    /\ getCalls' = getCalls + 1
    /\ Goto("teams")
    /\ Step("fetch")
    /\ UNCHANGED <<io, graph, usersTodo, teams, teamsFetched, groupsTodo, resTodo, sink>>

\* lines 83-86: the GET fails or its body has no 'members' key
FetchMembersFault ==
    /\ BetweenResources
    /\ memTodo # <<>>
    /\ getCalls' = getCalls + 1
    /\ Crash("KeyError")
    /\ Step("fetch")
    /\ UNCHANGED <<graph, loops, nMembers, sink>>

\* lines 86-90: one iteration over the members of the current resource
AddMember ==
    /\ pc = "teams"
    /\ membersTodo # <<>>
    /\ LET m == Head(membersTodo)
           r == Head(memTodo)
           team_id == resources[r].properties.pagerduty_id
       IN  IF m.user \notin DOMAIN local_users
           THEN \* app.local_users[...] of an id that was never added
                /\ Crash("KeyError")
                /\ UNCHANGED <<local_users, membersTodo, memTodo>>
           ELSE /\ local_users' =
                      [local_users EXCEPT ![m.user].roles = @ \cup {<<m.role, r>>},
                                          ![m.user].groups = @ \cup {team_id}]
                /\ membersTodo' = Tail(membersTodo)
                /\ memTodo' = IF Tail(membersTodo) = <<>> THEN Tail(memTodo) ELSE memTodo
                /\ Goto("teams")
                /\ UNCHANGED io
    /\ Step("build")
    /\ UNCHANGED <<propDefs, propSets, permissions, local_roles, local_groups,
                   resources, usersTodo, teams, teamsFetched, groupsTodo, resTodo,
                   srcio, sink>>

----------------------------------------------------------------------------
(* python.oaa.py main(), lines 96-119; seed.python.oaa.py main(), lines 26-49 *)

\* control has reached the statement that constructs the client
AtConnect ==
    /\ entry \in {"builder", "seed"}
    /\ \/ pc = "connect"
       \/ BetweenResources /\ memTodo = <<>>

\* Connect moved in front of the first fetch of the Model Builder
ConnectBeforeFetch ==
    /\ entry \in {"builder", "seed"}
    /\ \/ /\ pc = "fetch_users"
          /\ ~connected
          /\ connected' = TRUE
          /\ Goto("fetch_users")
          /\ Step("connect")
       \/ /\ AtConnect
          /\ connected' = TRUE
          /\ Goto("get_provider")
          /\ IF connected THEN steps' = steps ELSE Step("connect")
    /\ UNCHANGED <<io, graph, loops, srcio, provider, lookupResult, lookupCalls,
                   createCalls, pushCalls, fileReads, response>>

\* line 98 (seed: line 28): the client is constructed
Connect ==
    /\ AtConnect
    /\ connected' = TRUE
    /\ Goto("get_provider")
    /\ Step("connect")
    /\ UNCHANGED <<io, graph, loops, srcio, provider, lookupResult, lookupCalls, createCalls,
                   pushCalls, fileReads, response>>

\* line 98 (seed: line 28): the constructor raises OAAClientError, outside any try
ConnectFailed ==
    /\ AtConnect
    /\ Crash("OAAClientError")
    /\ Step("connect")
    /\ UNCHANGED <<graph, loops, srcio, sink>>

\* GetProvider without the test of line 100: create_provider always follows
GetProviderAlwaysCreate ==
    /\ pc = "get_provider"
    /\ lookupCalls' = lookupCalls + 1
    /\ \E found \in BOOLEAN :
          /\ provider' = IF found THEN "found" ELSE "none"
          /\ lookupResult' = provider'
    /\ Goto("create_provider")
    /\ Step("lookup")
    /\ UNCHANGED <<io, graph, loops, srcio, connected, createCalls, pushCalls,
                   fileReads, response>>

\* lines 99-100 (seed: 29-30): provider = get_provider(name); if not provider
GetProvider ==
    /\ pc = "get_provider"
    /\ lookupCalls' = lookupCalls + 1
    /\ \E found \in BOOLEAN :
          /\ provider' = IF found THEN "found" ELSE "none"
          /\ lookupResult' = provider'
          /\ Goto(IF found THEN "push" ELSE "create_provider")
    /\ Step("lookup")
    /\ UNCHANGED <<io, graph, loops, srcio, connected, createCalls, pushCalls,
                   fileReads, response>>

\* line 99 (seed: 29): get_provider raises OAAClientError, outside any try
GetProviderFailed ==
    /\ pc = "get_provider"
    /\ lookupCalls' = lookupCalls + 1
    /\ Crash("OAAClientError")
    /\ Step("lookup")
    /\ UNCHANGED <<graph, loops, srcio, connected, provider, lookupResult, createCalls, pushCalls,
                   fileReads, response>>

\* line 101 (seed: 31): provider = create_provider(name, 'application')
CreateProvider ==
    /\ pc = "create_provider"
    /\ createCalls' = createCalls + 1
    /\ provider' = "created"
    /\ Goto("push")
    /\ Step("create")
    /\ UNCHANGED <<io, graph, loops, srcio, connected, lookupResult, lookupCalls, pushCalls,
                   fileReads, response>>

\* line 101 (seed: 31): create_provider raises OAAClientError, outside any try
CreateProviderFailed ==
    /\ pc = "create_provider"
    /\ createCalls' = createCalls + 1
    /\ Crash("OAAClientError")
    /\ Step("create")
    /\ UNCHANGED <<graph, loops, srcio, connected, provider, lookupResult, lookupCalls, pushCalls,
                   fileReads, response>>

\* lines 103-107 (seed: 33-37): the one push_application call; it returns a
\* response with a list of warnings, or raises OAAClientError with details
PushApplication ==
    /\ pc = "push"
    /\ entry \in {"builder", "seed"}
    /\ pushCalls' = pushCalls + 1
    /\ \E k \in {"ok", "error"}, items \in ItemLists :
          response' = [kind |-> k, items |-> items]
    /\ Goto("report")
    /\ Step("push")
    /\ UNCHANGED <<io, graph, loops, srcio, connected, provider, lookupResult, lookupCalls,
                   createCalls, fileReads>>

Lines(tag, items) == [i \in 1..Len(items) |-> Line(tag, items[i])]

\* ReportWarnings ending the process with status 1 when there are warnings
ReportWarningsAsFailure ==
    /\ pc = "report"
    /\ entry \in {"builder", "seed"}
    /\ response.kind = "ok"
    /\ out' = IF response.items # <<>>
              THEN out \o <<Line("header", "-- Push succeeded with warnings:")>>
                       \o Lines("warning", response.items)
              ELSE out
    /\ err' = err
    /\ Exit(IF response.items # <<>> THEN 1 ELSE 0)
    /\ Step("report")
    /\ UNCHANGED <<graph, loops, srcio, sink>>

\* lines 108-113 and 119 (seed: 38-43, 49): warnings are printed; main returns
ReportWarnings ==
    /\ pc = "report"
    /\ entry \in {"builder", "seed"}
    /\ response.kind = "ok"
    /\ out' = IF response.items # <<>>
              THEN out \o <<Line("header", "-- Push succeeded with warnings:")>>
                       \o Lines("warning", response.items)
              ELSE out
    /\ err' = err
    /\ Exit(0)
    /\ Step("report")
    /\ UNCHANGED <<graph, loops, srcio, sink>>

\* lines 114-119 (seed: 44-49): the error and its details are printed to
\* stderr; main returns
ReportError ==
    /\ pc = "report"
    /\ entry \in {"builder", "seed"}
    /\ response.kind = "error"
    /\ err' = err \o <<Line("error", "-- Error: error: message (status_code)")>>
                  \o Lines("detail", response.items)
    /\ out' = out
    /\ Exit(0)
    /\ Step("report")
    /\ UNCHANGED <<graph, loops, srcio, sink>>

----------------------------------------------------------------------------
(* csvupload.py, lines 27-49 *)

\* lines 3-11: the names the script imports; none of them is log
LogDefined == FALSE

\* lines 27-29: the client is constructed
CsvConnect ==
    /\ entry = "csv"
    /\ pc = "connect"
    /\ out' = Append(out, Line("print", "Connecting to Veza"))
    /\ err' = err
    /\ connected' = TRUE
    /\ Goto("load")
    /\ Step("connect")
    /\ UNCHANGED <<graph, loops, srcio, provider, lookupResult, lookupCalls, createCalls,
                   pushCalls, fileReads, response>>

\* CsvConnectFailed without line 33: the handler prints and the script goes on
CsvConnectFailedNoExit ==
    /\ entry = "csv"
    /\ pc = "connect"
    /\ out' = out \o << Line("print", "Connecting to Veza"),
                        Line("print", "Error connecting to Veza tenant"),
                        Line("print", "OAAClientError") >>
    /\ err' = err
    /\ Goto("load")
    /\ Step("connect")
    /\ UNCHANGED <<graph, loops, srcio, sink>>

\* lines 27-33: the constructor raises OAAClientError; the handler prints and
\* calls sys.exit(1)
CsvConnectFailed ==
    /\ entry = "csv"
    /\ pc = "connect"
    /\ out' = out \o << Line("print", "Connecting to Veza"),
                        Line("print", "Error connecting to Veza tenant"),
                        Line("print", "OAAClientError") >>
    /\ err' = err
    /\ Exit(1)
    /\ Step("connect")
    /\ UNCHANGED <<graph, loops, srcio, sink>>

\* lines 35-37: the file is read whole and base64-encoded
LoadCsv ==
    /\ entry = "csv"
    /\ pc = "load"
    /\ out' = Append(out, Line("print", "Loading CSV file"))
    /\ err' = err
    /\ fileReads' = fileReads + 1
    /\ Goto("push")
    /\ Step("read")
    /\ UNCHANGED <<graph, loops, srcio, connected, provider, lookupResult, lookupCalls,
                   createCalls, pushCalls, response>>

\* line 36: open() raises (no such file); nothing catches it
LoadCsvFailed ==
    /\ entry = "csv"
    /\ pc = "load"
    /\ out' = Append(out, Line("print", "Loading CSV file"))
    /\ err' = Append(err, Line("traceback", "FileNotFoundError"))
    /\ Exit(1)
    /\ Step("read")
    /\ UNCHANGED <<graph, loops, srcio, sink>>

\* lines 39-42: the one api_post call; it returns, or raises OAAClientError
\* with details
CsvPush ==
    /\ entry = "csv"
    /\ pc = "push"
    /\ out' = Append(out, Line("print", "Pushing data to Veza"))
    /\ err' = err
    /\ pushCalls' = pushCalls + 1
    /\ \/ response' = [kind |-> "ok", items |-> <<>>]
       \/ \E items \in ItemLists : response' = [kind |-> "error", items |-> items]
    /\ Goto("report")
    /\ Step("push")
    /\ UNCHANGED <<graph, loops, srcio, connected, provider, lookupResult, lookupCalls,
                   createCalls, fileReads>>

\* line 43: the confirmation; the script ends
CsvReportOk ==
    /\ entry = "csv"
    /\ pc = "report"
    /\ response.kind = "ok"
    /\ out' = Append(out, Line("print", "Push succeeded"))
    /\ err' = err
    /\ Exit(0)
    /\ Step("report")
    /\ UNCHANGED <<graph, loops, srcio, sink>>

\* lines 44-49: the handler's first statement evaluates the name log; bound,
\* the error and its details are logged and sys.exit(3) runs; unbound, the
\* lookup raises NameError inside the handler and nothing catches it
CsvReportError ==
    /\ entry = "csv"
    /\ pc = "report"
    /\ response.kind = "error"
    /\ IF LogDefined
       THEN /\ err' = err \o <<Line("error", "error: message (status_code)")>>
                          \o Lines("detail", response.items)
            /\ out' = out
            /\ Exit(3)
       ELSE Crash("NameError")
    /\ Step("report")
    /\ UNCHANGED <<graph, loops, srcio, sink>>

----------------------------------------------------------------------------
(* Specifications *)

Builder(roles) ==
    \/ BuildApp
    \/ DefineProperties
    \/ AddPermissions
    \/ AddRoles
    \/ FetchUsers(SeqsUpTo(SourceUsers(roles), MaxUsers))
    \/ AddUser
    \/ FetchTeams(SeqsUpTo(SourceTeams, MaxTeams))
    \/ AddGroup
    \/ AddResource
    \/ FetchMembers(SeqsUpTo(SourceMembers(roles), MaxMembers))
    \/ AddMember

SourceFaults ==
    \/ FetchUsersFault
    \/ FetchTeamsFault
    \/ FetchMembersFault

Sink ==
    \/ Connect
    \/ ConnectFailed
    \/ GetProvider
    \/ GetProviderFailed
    \/ CreateProvider
    \/ CreateProviderFailed
    \/ PushApplication
    \/ ReportWarnings
    \/ ReportError

Csv ==
    \/ CsvConnect
    \/ CsvConnectFailed
    \/ LoadCsv
    \/ LoadCsvFailed
    \/ CsvPush
    \/ CsvReportOk
    \/ CsvReportError

\* every entry point, the source sending roles from SomeRoles
Next ==
    \/ Builder(SomeRoles)
    \/ SourceFaults
    \/ Sink
    \/ Csv

Spec == Init /\ [][Next]_vars

\* at most one record of the given set
UpToOne(S) == {<<>>} \cup {<<x>> : x \in S}

\* the Model Builder and the Seed variant, the source sending any of the ten
\* names of the permission catalog as a role, one record to a response
NextRoles ==
    \/ BuildApp
    \/ DefineProperties
    \/ AddPermissions
    \/ AddRoles
    \/ FetchUsers(UpToOne(SourceUsers(PermissionNames)))
    \/ AddUser
    \/ FetchTeams(UpToOne(SourceTeams))
    \/ AddGroup
    \/ AddResource
    \/ FetchMembers(UpToOne(SourceMembers(PermissionNames)))
    \/ AddMember
    \/ Sink

InitRoles == Init /\ entry # "csv"

SpecRoles == InitRoles /\ [][NextRoles]_vars

\* the Model Builder up to the end of the resource loop, the source sending
\* one team with a description of any length up to MaxDescLen
NextDesc ==
    \/ BuildApp
    \/ DefineProperties
    \/ AddPermissions
    \/ AddRoles
    \/ FetchUsers({<<>>})
    \/ FetchTeams({<<t>> : t \in DescTeams})
    \/ AddGroup
    \/ AddResource

InitDesc == Init /\ entry = "builder"

SpecDesc == InitDesc /\ [][NextDesc]_vars

----------------------------------------------------------------------------
(* The claims *)

Last(s) == s[Len(s)]

\* the last n elements of s
Suffix(s, n) == SubSeq(s, Len(s) - n + 1, Len(s))

OaaEntry == entry \in {"builder", "seed"}

\* the lines a reported push error consists of: the error line, then one
\* line per detail
ErrorReport(tag) == <<Line("error", tag)>> \o Lines("detail", response.items)

\* C1: in the Model Builder and the Seed variant, a run whose push_application
\* call failed has reported the error and every detail to stderr and has
\* ended with a non-zero exit status.
C1_PushErrorExitsNonZero ==
    (OaaEntry /\ exited /\ response.kind = "error") =>
        /\ err = ErrorReport("-- Error: error: message (status_code)")
        /\ exitCode # 0

\* C2: in the CSV Pusher, a run whose push_csv POST failed has reported the
\* error and every detail to the error channel and has ended with exit code 3.
C2_CsvPushErrorExits3 ==
    (entry = "csv" /\ exited /\ response.kind = "error") =>
        /\ err = ErrorReport("error: message (status_code)")
        /\ exitCode = 3

\* C3: in the Model Builder and the Seed variant, a run whose push returned
\* has exit status 0 whether or not there were warnings, and has printed
\* every warning, in order, as its last output.
C3_WarningsReportedExitZero ==
    (OaaEntry /\ exited /\ response.kind = "ok") =>
        /\ exitCode = 0
        /\ Len(out) >= Len(response.items)
        /\ Suffix(out, Len(response.items)) = Lines("warning", response.items)

C3_Witness ==
    /\ entry = "builder"
    /\ exited
    /\ response.kind = "ok"
    /\ Len(response.items) = 2
    /\ getCalls > 0

\* C4 as stated: in every run the platform client is constructed before the
\* first source fetch or file read.
C4_ClientBeforeFirstFetch ==
    \A i \in 1..Len(steps) :
        steps[i] \in {"fetch", "read"} =>
            \E j \in 1..(i - 1) : steps[j] = "connect"

\* position of a step kind in the order of a run; build and fetch steps
\* share the first position
Rank(kind) ==
    CASE kind \in {"build", "fetch"} -> 0
      [] kind = "connect" -> 1
      [] kind \in {"read", "lookup"} -> 2
      [] kind = "create" -> 3
      [] kind = "push" -> 4
      [] kind = "report" -> 5

\* C4 as amended: in every run the build and fetch steps come first, in any
\* interleaving, then the client is constructed, then the file is read (CSV
\* Pusher) or the provider looked up and, if need be, created (Model Builder,
\* Seed), then the push, then the report, each of these at most once.
C4_StepOrder ==
    \A i, j \in 1..Len(steps) :
        i < j => \/ Rank(steps[i]) < Rank(steps[j])
                 \/ Rank(steps[i]) = 0 /\ Rank(steps[j]) = 0

C4_Witness ==
    /\ entry = "builder"
    /\ exited
    /\ Last(steps) = "report"
    /\ \E i, j \in 1..Len(steps) :
          i < j /\ steps[i] = "fetch" /\ steps[j] = "connect"

\* the constructor of the platform client was called and raised
ConnectHasFailed == "connect" \in Range(steps) /\ ~connected

\* C5: in every entry point, once the construction of the platform client has
\* failed the process has ended, with a non-zero status (1 in the CSV Pusher),
\* the failed construction is its last step, and no file was read, no
\* provider looked up or created, and nothing pushed.
C5_ConnectFailureFatal ==
    ConnectHasFailed =>
        /\ exited
        /\ exitCode # 0
        /\ entry = "csv" => exitCode = 1
        /\ Last(steps) = "connect"
        /\ fileReads = 0
        /\ lookupCalls = 0
        /\ createCalls = 0
        /\ pushCalls = 0

C5_Witness ==
    /\ entry = "csv"
    /\ ConnectHasFailed
    /\ exited

\* C6: in the Model Builder and the Seed variant, get_provider,
\* create_provider and push_application are each called at most once;
\* create_provider only after the lookup returned no provider;
\* push_application only with the provider found or created, and exactly
\* once in a run that got past the push statement.
C6_FetchOrCreate ==
    OaaEntry =>
        /\ lookupCalls <= 1
        /\ createCalls <= 1
        /\ createCalls = 1 => lookupResult = "none"
        /\ pushCalls >= 1 => provider \in {"found", "created"}
        /\ provider \in {"found", "created"} =>
              \/ pc = "push" /\ pushCalls = 0
              \/ pc \in {"report", "done"} /\ pushCalls = 1

C6_Witness ==
    /\ entry = "seed"
    /\ exited
    /\ lookupResult = "none"
    /\ createCalls = 1
    /\ pushCalls = 1

\* C7: in a Model Builder run that has pushed, the number of GET calls made is
\* the number of teams the teams fetch returned plus two, and one push was
\* made.
C7_GetCalls ==
    (entry = "builder" /\ pushCalls >= 1) =>
        /\ getCalls = Len(teams) + 2
        /\ pushCalls = 1

C7_Witness ==
    /\ entry = "builder"
    /\ pushCalls = 1
    /\ Len(teams) = 2
    /\ nMembers > 0

\* the description of the claim: the source description cut to the length L
Cut(d, L) == IF Truthy(d) THEN Str(Slice(d.text, L)) ELSE None

\* C8: the description of every team's Resource is the source description
\* cut to the platform's accepted length: longer, its first L characters;
\* shorter and non-empty, unchanged; missing or empty, none.
C8_DescriptionCutToPlatformMax ==
    \A i \in 1..Len(teams) :
        teams[i].name \in DOMAIN resources =>
            resources[teams[i].name].description =
                Cut(teams[i].description, PlatformMaxDescription)

\* C9: every set_property call of a Model Builder run names a property that
\* was declared before the call, for the entity kind or resource type it is
\* set on.
C9_SetOnlyDeclared ==
    entry = "builder" => propSets \subseteq propDefs

C9_Witness ==
    /\ entry = "builder"
    /\ propSets = PropertySchema
    /\ \E u \in DOMAIN local_users : DOMAIN local_users[u].properties = {"email", "is_billed"}
    /\ \E r \in DOMAIN resources :
          DOMAIN resources[r].properties = {"pagerduty_id", "summary", "default_role"}

\* C10: with the source's role names drawn from the ten names of the
\* permission catalog, every role assigned to a user, at application scope
\* or on a resource, is the unique id of a declared role.
C10_AssignedRolesDeclared ==
    \A u \in DOMAIN local_users :
        \A a \in local_users[u].roles : a[1] \in DOMAIN local_roles

====
